---- MODULE Spec2Model ----
(***************************************************************************)
(* Model of the contact-form relay (email-api): the Bun.serve fetch        *)
(* handler of src/index.ts (rate limiter, validator, CORS headers,         *)
(* dispatch order), the ConfigStore lookups of src/config.ts and the       *)
(* mail dispatch of src/mailer.ts.                                         *)
(*                                                                         *)
(* JavaScript runs the handler single-threaded: a request executes         *)
(* atomically from one await to the next.  The handler has two awaits      *)
(* (req.json() and sendContactEmail), hence three atomic steps per         *)
(* request: Fetch, BodyRead, SmtpDone.                                     *)
(***************************************************************************)
EXTENDS Integers, Sequences, FiniteSets, TLC

(***************************************************************************)
(* Program constants.                                                      *)
(***************************************************************************)
RATE_LIMIT == 5
RATE_WINDOW_MS == 60000
DEFAULT_SMTP_PORT == 587

(***************************************************************************)
(* Bounds of the model.                                                    *)
(***************************************************************************)
\* number of requests that can be in flight at once
MaxInFlight == 2
\* the clock stops advancing after this many half windows
MaxHalfWindows == 4
\* a key's counter is not driven past this value
MaxCount == 7
\* requests counted per client key and window where several clients call
MaxVisits == 2
\* origins in a config file
MaxOrigins == 2
\* longest string of the escaping alphabet put into a form field
MaxStrLen == 3
\* one-millisecond clock steps taken after each half-window step
MaxFine == 2

(***************************************************************************)
(* JavaScript values.  Strings that the code inspects character by         *)
(* character are sequences of one-character strings.                       *)
(***************************************************************************)
JsUndefined == [t |-> "undefined", s |-> <<>>, n |-> 0, b |-> FALSE]
JsNull      == [t |-> "null",      s |-> <<>>, n |-> 0, b |-> FALSE]
JsBool(v)   == [t |-> "boolean",   s |-> <<>>, n |-> 0, b |-> v]
JsNum(v)    == [t |-> "number",    s |-> <<>>, n |-> v, b |-> FALSE]
JsStr(v)    == [t |-> "string",    s |-> v,    n |-> 0, b |-> FALSE]
JsObject    == [t |-> "object",    s |-> <<>>, n |-> 0, b |-> FALSE]
JsArray     == [t |-> "array",     s |-> <<>>, n |-> 0, b |-> FALSE]

\* the typeof operator
TypeOf(v) ==
  IF v.t \in {"null", "object", "array"} THEN "object" ELSE v.t

\* ToBoolean: what `!v` and `v && ...` test
Truthy(v) ==
  CASE v.t = "undefined" -> FALSE
    [] v.t = "null"      -> FALSE
    [] v.t = "boolean"   -> v.b
    [] v.t = "number"    -> v.n # 0
    [] v.t = "string"    -> Len(v.s) > 0
    [] OTHER             -> TRUE

\* String.prototype.includes for a one-character needle
Includes(s, ch) == \E i \in 1..Len(s) : s[i] = ch

(***************************************************************************)
(* A parsed JSON body: its own value plus the four properties the          *)
(* validator reads.  Reading a property of an array or of an object that   *)
(* lacks it yields undefined.                                              *)
(***************************************************************************)
NoProps ==
  [email |-> JsUndefined, name |-> JsUndefined,
   message |-> JsUndefined, phone |-> JsUndefined]

JsonScalar(v) == [val |-> v, props |-> NoProps]
JsonArray     == [val |-> JsArray, props |-> NoProps]
JsonObject(e, nm, m, p) ==
  [val |-> JsObject,
   props |-> [email |-> e, name |-> nm, message |-> m, phone |-> p]]

\* A request body as sent: text that is not JSON, or the JSON value it denotes.
NotJson == [json |-> FALSE, value |-> JsonScalar(JsNull)]
Json(v) == [json |-> TRUE, value |-> v]


(***************************************************************************)
(* Request headers: a header is absent (Headers.get returns null) or       *)
(* present with a value.                                                   *)
(***************************************************************************)
NoHeader  == [present |-> FALSE, v |-> ""]
Header(x) == [present |-> TRUE, v |-> x]
\* X-Forwarded-For and the peer address carry character sequences
NoAddr    == [present |-> FALSE, v |-> <<>>]
Addr(x)   == [present |-> TRUE, v |-> x]

(***************************************************************************)
(* ConfigStore: the origins map built once at start-up.                    *)
(***************************************************************************)
OriginA == "https://a.example"
OriginB == "https://b.example"
OriginX == "https://x.example"

(***************************************************************************)
(* The values of the parsed config file.  A string is kept whole: the      *)
(* loader only tests it for truthiness and type.                           *)
(***************************************************************************)
CfgUndefined == [t |-> "undefined", s |-> "", n |-> 0, b |-> FALSE]
CfgNull      == [t |-> "null",      s |-> "", n |-> 0, b |-> FALSE]
CfgStr(v)    == [t |-> "string",    s |-> v,  n |-> 0, b |-> FALSE]
CfgNum(v)    == [t |-> "number",    s |-> "", n |-> v, b |-> FALSE]
CfgBool(v)   == [t |-> "boolean",   s |-> "", n |-> 0, b |-> v]
CfgObject    == [t |-> "object",    s |-> "", n |-> 0, b |-> FALSE]

CfgTypeOf(v) == IF v.t = "null" THEN "object" ELSE v.t

CfgTruthy(v) ==
  CASE v.t = "undefined" -> FALSE
    [] v.t = "null"      -> FALSE
    [] v.t = "boolean"   -> v.b
    [] v.t = "number"    -> v.n # 0
    [] v.t = "string"    -> v.s # ""
    [] OTHER             -> TRUE

\* a ?? b
Coalesce(a, b) == IF a.t \in {"undefined", "null"} THEN b ELSE a

\* the smtp value of an entry: what it is, and the properties read from it
NoSmtpProps ==
  [host |-> CfgUndefined, port |-> CfgUndefined, secure |-> CfgUndefined,
   user |-> CfgUndefined, pass |-> CfgUndefined]
SmtpValue(v) == [val |-> v, props |-> NoSmtpProps]
SmtpObject(host, port, secure, user, pass) ==
  [val |-> CfgObject,
   props |-> [host |-> host, port |-> port, secure |-> secure,
              user |-> user, pass |-> pass]]

\* the value stored under an origin: what it is, and the properties read from it
EntryValue(v) ==
  [val |-> v, name |-> CfgUndefined, toEmail |-> CfgUndefined,
   smtp |-> SmtpValue(CfgUndefined)]
EntryObject(name, toEmail, smtp) ==
  [val |-> CfgObject, name |-> name, toEmail |-> toEmail, smtp |-> smtp]

\* process.env: CONFIG_FILE set or not, and the number PORT converts to
\* (0 when it is unset or not a number)
Env(hasConfigFile, port) == [CONFIG_FILE |-> hasConfigFile, PORT |-> port]

\* the file CONFIG_FILE names: unreadable, or text that is not JSON, or a JSON
\* value that is not an object, or an object, its entries in the order of
\* Object.entries
FileUnreadable == [readable |-> FALSE, json |-> FALSE, top |-> "", entries |-> <<>>]
FileNotJson    == [readable |-> TRUE, json |-> FALSE, top |-> "", entries |-> <<>>]
FileValue(top) == [readable |-> TRUE, json |-> TRUE, top |-> top, entries |-> <<>>]
FileObject(entries) ==
  [readable |-> TRUE, json |-> TRUE, top |-> "object", entries |-> entries]

NoOrigins ==
  [o \in {} |->
     [name |-> CfgUndefined, toEmail |-> CfgUndefined, smtp |-> NoSmtpProps]]

Thrown(message) ==
  [ok |-> FALSE, error |-> message, config |-> [port |-> 0, origins |-> NoOrigins]]
Loaded(port, origins) ==
  [ok |-> TRUE, error |-> "", config |-> [port |-> port, origins |-> origins]]

\* the checks made on one entry: the message of the error thrown, "" if none
EntryError(e) ==
  IF e.val.t \in {"undefined", "null"} THEN "TypeError"
  ELSE IF ~CfgTruthy(e.toEmail) \/ CfgTypeOf(e.toEmail) # "string"
    THEN "Missing or invalid toEmail"
  ELSE IF ~CfgTruthy(e.smtp.val) \/ CfgTypeOf(e.smtp.val) # "object"
    THEN "Missing or invalid smtp config"
  ELSE IF ~CfgTruthy(e.smtp.props.host) \/ ~CfgTruthy(e.smtp.props.user)
          \/ ~CfgTruthy(e.smtp.props.pass)
    THEN "Missing required smtp fields (host, user, pass)"
  ELSE ""

\* origins.set(origin, {...})
StoredEntry(e) ==
  [name |-> e.name,
   toEmail |-> e.toEmail,
   smtp |-> [host |-> e.smtp.props.host,
             port |-> Coalesce(e.smtp.props.port, CfgNum(DEFAULT_SMTP_PORT)),
             secure |-> Coalesce(e.smtp.props.secure, CfgBool(FALSE)),
             user |-> e.smtp.props.user,
             pass |-> e.smtp.props.pass]]

\* the loop over Object.entries: the first error ends it
RECURSIVE LoadEntries(_, _)
LoadEntries(entries, origins) ==
  IF entries = <<>> THEN [error |-> "", origins |-> origins]
  ELSE LET origin == Head(entries)[1]
           e == Head(entries)[2]
       IN  IF EntryError(e) # "" THEN [error |-> EntryError(e), origins |-> origins]
           ELSE LoadEntries(Tail(entries), (origin :> StoredEntry(e)) @@ origins)

loadConfig(env, file) ==
  IF ~env.CONFIG_FILE THEN Thrown("Missing required environment variable: CONFIG_FILE")
  ELSE IF ~file.readable THEN Thrown("Failed to read config file")
  ELSE IF ~file.json THEN Thrown("Invalid JSON in config file")
  ELSE IF file.top # "object" THEN Thrown("Config file must be a JSON object")
  ELSE LET result == LoadEntries(file.entries, NoOrigins) IN
       IF result.error # "" THEN Thrown(result.error)
       ELSE IF DOMAIN result.origins = {}
         THEN Thrown("Config file must contain at least one origin")
       ELSE Loaded(IF env.PORT # 0 THEN env.PORT ELSE 3000, result.origins)

\* the environment and the config file of the server modelled: two sites, the
\* first leaving port and secure to their defaults
ServerEnv == Env(TRUE, 0)

EntryA ==
  EntryObject(CfgStr("Site A"), CfgStr("owner@a.example"),
              SmtpObject(CfgStr("smtp.a.example"), CfgUndefined, CfgUndefined,
                         CfgStr("relay@a.example"), CfgStr("secret-a")))
EntryB ==
  EntryObject(CfgStr("Site B"), CfgStr("owner@b.example"),
              SmtpObject(CfgStr("smtp.b.example"), CfgNum(465), CfgBool(TRUE),
                         CfgStr("relay@b.example"), CfgStr("secret-b")))

ConfigFile == FileObject(<<<<OriginA, EntryA>>, <<OriginB, EntryB>>>>)

\* export const config = loadConfig()
config == loadConfig(ServerEnv, ConfigFile).config

\* the null a lookup returns
NoConfig ==
  [name |-> CfgUndefined, toEmail |-> CfgUndefined, smtp |-> NoSmtpProps]

\* `!origin`: null or the empty string
OriginFalsy(origin) == ~origin.present \/ origin.v = ""

\* (variant: an origin that is not configured is served as the first site)
getOriginConfigFallback(origin) ==
  IF OriginFalsy(origin) THEN NoConfig
  ELSE IF origin.v \in DOMAIN config.origins THEN config.origins[origin.v]
  ELSE config.origins[OriginA]

getOriginConfig(origin) ==
  IF OriginFalsy(origin) THEN NoConfig
  ELSE IF origin.v \in DOMAIN config.origins THEN config.origins[origin.v]
  ELSE NoConfig

\* (variant: any non-empty origin is allowed)
isAllowedOriginAny(origin) ==
  IF OriginFalsy(origin) THEN FALSE ELSE TRUE

isAllowedOrigin(origin) ==
  IF OriginFalsy(origin) THEN FALSE
  ELSE origin.v \in DOMAIN config.origins

(***************************************************************************)
(* RateLimiter.  The map is a function whose domain is the set of keys     *)
(* stored so far.  isRateLimited returns the map it leaves behind and      *)
(* its boolean result.                                                     *)
(***************************************************************************)
\* (variant: the test is made on count >= RATE_LIMIT)
isRateLimitedOffByOne(map, ip, time) ==
  IF ip \notin DOMAIN map \/ time > map[ip].resetAt
  THEN [map |-> (ip :> [count |-> 1, resetAt |-> time + RATE_WINDOW_MS]) @@ map,
        limited |-> FALSE]
  ELSE LET count == map[ip].count + 1 IN
       [map |-> [map EXCEPT ![ip].count = count],
        limited |-> count >= RATE_LIMIT]

\* (variant: opening a window sweeps the expired entries of the other keys)
isRateLimitedEvicting(map, ip, time) ==
  IF ip \notin DOMAIN map \/ time > map[ip].resetAt
  THEN LET live == {k \in DOMAIN map : time <= map[k].resetAt} IN
       [map |-> (ip :> [count |-> 1, resetAt |-> time + RATE_WINDOW_MS])
                @@ [k \in live |-> map[k]],
        limited |-> FALSE]
  ELSE LET count == map[ip].count + 1 IN
       [map |-> [map EXCEPT ![ip].count = count],
        limited |-> count > RATE_LIMIT]

\* (variant: a refused call starts the lockout anew)
isRateLimitedExtending(map, ip, time) ==
  IF ip \notin DOMAIN map \/ time > map[ip].resetAt
  THEN [map |-> (ip :> [count |-> 1, resetAt |-> time + RATE_WINDOW_MS]) @@ map,
        limited |-> FALSE]
  ELSE LET count == map[ip].count + 1 IN
       [map |-> [map EXCEPT ![ip] =
                   [count |-> count,
                    resetAt |-> IF count > RATE_LIMIT THEN time + RATE_WINDOW_MS
                                ELSE @.resetAt]],
        limited |-> count > RATE_LIMIT]

\* (variant: the entry is replaced from the instant resetAt on)
isRateLimitedHalfOpen(map, ip, time) ==
  IF ip \notin DOMAIN map \/ time >= map[ip].resetAt
  THEN [map |-> (ip :> [count |-> 1, resetAt |-> time + RATE_WINDOW_MS]) @@ map,
        limited |-> FALSE]
  ELSE LET count == map[ip].count + 1 IN
       [map |-> [map EXCEPT ![ip].count = count],
        limited |-> count > RATE_LIMIT]

\* (variant: one budget for the whole server, counted over all keys)
isRateLimitedGlobalBudget(map, ip, time) ==
  IF ip \notin DOMAIN map \/ time > map[ip].resetAt
  THEN [map |-> (ip :> [count |-> 1, resetAt |-> time + RATE_WINDOW_MS]) @@ map,
        limited |-> FALSE]
  ELSE LET count == map[ip].count + 1
           others == {k \in DOMAIN map \ {ip} : time <= map[k].resetAt}
       IN
       [map |-> [map EXCEPT ![ip].count = count],
        limited |-> count > RATE_LIMIT \/ others # {}]

\* (variant: the incremented count is tested but not stored)
isRateLimitedLostUpdate(map, ip, time) ==
  IF ip \notin DOMAIN map \/ time > map[ip].resetAt
  THEN [map |-> (ip :> [count |-> 1, resetAt |-> time + RATE_WINDOW_MS]) @@ map,
        limited |-> FALSE]
  ELSE LET count == map[ip].count + 1 IN
       [map |-> map, limited |-> count > RATE_LIMIT]

isRateLimited(map, ip, time) ==
  IF ip \notin DOMAIN map \/ time > map[ip].resetAt
  THEN [map |-> (ip :> [count |-> 1, resetAt |-> time + RATE_WINDOW_MS]) @@ map,
        limited |-> FALSE]
  ELSE LET count == map[ip].count + 1 IN
       [map |-> [map EXCEPT ![ip].count = count],
        limited |-> count > RATE_LIMIT]

(***************************************************************************)
(* Validator.                                                              *)
(***************************************************************************)
\* (variant: the "@" test is missing)
validateBodyNoAt(body) ==
  IF TypeOf(body.val) # "object" \/ body.val.t = "null" THEN FALSE
  ELSE LET b == body.props IN
       /\ TypeOf(b.email) = "string"
       /\ TypeOf(b.name) = "string"
       /\ TypeOf(b.message) = "string"
       /\ \/ (Truthy(b.phone) /\ TypeOf(b.phone) = "string" /\ Len(b.phone.s) > 0)
          \/ ~Truthy(b.phone)
       /\ Len(b.name.s) > 0
       /\ Len(b.message.s) > 0

validateBody(body) ==
  IF TypeOf(body.val) # "object" \/ body.val.t = "null" THEN FALSE
  ELSE LET b == body.props IN
       /\ TypeOf(b.email) = "string"
       /\ TypeOf(b.name) = "string"
       /\ TypeOf(b.message) = "string"
       /\ \/ (Truthy(b.phone) /\ TypeOf(b.phone) = "string" /\ Len(b.phone.s) > 0)
          \/ ~Truthy(b.phone)
       /\ Includes(b.email.s, "@")
       /\ Len(b.name.s) > 0
       /\ Len(b.message.s) > 0

(***************************************************************************)
(* CorsPolicy and responses.  Headers are functions from header names to   *)
(* values; a header that is not set is not in the domain.                  *)
(***************************************************************************)
NoHeaders == [h \in {} |-> ""]

corsHeaders(origin) ==
  LET allowedOrigin ==
        IF ~OriginFalsy(origin) /\ isAllowedOrigin(origin) THEN origin.v ELSE ""
  IN  ("Access-Control-Allow-Origin" :> allowedOrigin)
      @@ ("Access-Control-Allow-Methods" :> "POST, OPTIONS")
      @@ ("Access-Control-Allow-Headers" :> "Content-Type")

NoBody == <<>>
ErrorBody(msg) == <<"error", msg>>
SuccessBody == <<"success", "true">>

\* new Response(null, { status: 204, headers })
EmptyResponse(status, headers) ==
  [status |-> status, headers |-> headers, body |-> NoBody]

\* (variant: the headers argument is not passed on)
jsonDropsHeaders(data, status, headers) ==
  [status |-> status,
   headers |-> ("Content-Type" :> "application/json"),
   body |-> data]

\* { "Content-Type": "application/json", ...headers }: the spread wins
json(data, status, headers) ==
  [status |-> status,
   headers |-> headers @@ ("Content-Type" :> "application/json"),
   body |-> data]

(***************************************************************************)
(* log: the entry written to the console, one JSON line per call.  The     *)
(* entry keeps the level, the message and, of the meta object, the client  *)
(* key and the error text.                                                 *)
(***************************************************************************)
NoLog == [level |-> "", message |-> "", ip |-> <<>>, error |-> ""]

log(level, message, ip, error) ==
  [level |-> level, message |-> message, ip |-> ip, error |-> error]

(***************************************************************************)
(* Client key: X-Forwarded-For?.split(",")[0].trim() ?? peer ?? "unknown"  *)
(***************************************************************************)
RECURSIVE SplitFirst(_)
SplitFirst(s) ==
  IF s = <<>> \/ Head(s) = "," THEN <<>>
  ELSE <<Head(s)>> \o SplitFirst(Tail(s))

RECURSIVE TrimStart(_)
TrimStart(s) ==
  IF s # <<>> /\ Head(s) = " " THEN TrimStart(Tail(s)) ELSE s

RECURSIVE TrimEnd(_)
TrimEnd(s) ==
  IF s # <<>> /\ s[Len(s)] = " " THEN TrimEnd(SubSeq(s, 1, Len(s) - 1)) ELSE s

Trim(s) == TrimEnd(TrimStart(s))

Unknown == <<"u", "n", "k", "n", "o", "w", "n">>

\* (variant: an empty first entry falls through, as with || in place of ??)
ClientKeyFallsThrough(xff, peer) ==
  IF xff.present /\ Trim(SplitFirst(xff.v)) # <<>> THEN Trim(SplitFirst(xff.v))
  ELSE IF peer.present THEN peer.v
  ELSE Unknown

ClientKey(xff, peer) ==
  IF xff.present THEN Trim(SplitFirst(xff.v))
  ELSE IF peer.present THEN peer.v
  ELSE Unknown

(***************************************************************************)
(* Mailer: the transport created and the message handed to sendMail.       *)
(***************************************************************************)
ContactPrefix == <<"C", "o", "n", "t", "a", "c", "t", ":", " ">>

\* String.prototype.replace with a global one-character pattern
\* the characters of s from position i on, each `ch` replaced by `by`
RECURSIVE ReplaceFrom(_, _, _, _)
ReplaceFrom(s, i, ch, by) ==
  IF i > Len(s) THEN <<>>
  ELSE (IF s[i] = ch THEN by ELSE <<s[i]>>) \o ReplaceFrom(s, i + 1, ch, by)

\* the receiver is a value: it is evaluated once, before the scan
ReplaceAll(s, ch, by) ==
  CHOOSE out \in {ReplaceFrom(str, 1, ch, by) : str \in {s}} : TRUE

EntAmp  == <<"&", "a", "m", "p", ";">>
EntLt   == <<"&", "l", "t", ";">>
EntGt   == <<"&", "g", "t", ";">>
EntQuot == <<"&", "q", "u", "o", "t", ";">>

\* (variant: the ampersand pass runs last)
escapeHtmlAmpLast(str) ==
  ReplaceAll(ReplaceAll(ReplaceAll(ReplaceAll(str, "<", EntLt), ">", EntGt),
                        "\"", EntQuot), "&", EntAmp)

escapeHtml(str) ==
  ReplaceAll(ReplaceAll(ReplaceAll(ReplaceAll(str, "&", EntAmp), "<", EntLt),
                        ">", EntGt), "\"", EntQuot)

Br == <<"<", "b", "r", ">">>

\* the text and html templates of the message, as the values interpolated
\* into them
MessageText(data, originConfig) ==
  [name |-> data.name.s, email |-> data.email.s,
   phone |-> IF Truthy(data.phone) THEN data.phone.s ELSE <<>>,
   originName |-> originConfig.name, message |-> data.message.s]

MessageHtml(data, originConfig) ==
  [name |-> escapeHtml(data.name.s), email |-> escapeHtml(data.email.s),
   phone |-> IF Truthy(data.phone) THEN escapeHtml(data.phone.s) ELSE <<>>,
   originName |-> originConfig.name,
   message |-> ReplaceAll(escapeHtml(data.message.s), "\n", Br)]

\* (variant: one transport built at load time from a single configuration)
sendContactEmailShared(data, originConfig) ==
  LET shared == config.origins[OriginA]
      smtp == shared.smtp IN
  [transport |-> [host |-> smtp.host, port |-> smtp.port, secure |-> smtp.secure,
                  auth |-> [user |-> smtp.user, pass |-> smtp.pass]],
   from |-> [display |-> ContactPrefix \o data.name.s, address |-> smtp.user],
   to |-> shared.toEmail,
   subject |-> [originName |-> originConfig.name, name |-> data.name.s],
   text |-> MessageText(data, originConfig),
   html |-> MessageHtml(data, originConfig)]

sendContactEmail(data, originConfig) ==
  LET smtp == originConfig.smtp IN
  [transport |-> [host |-> smtp.host, port |-> smtp.port, secure |-> smtp.secure,
                  auth |-> [user |-> smtp.user, pass |-> smtp.pass]],
   from |-> [display |-> ContactPrefix \o data.name.s, address |-> smtp.user],
   to |-> originConfig.toEmail,
   subject |-> [originName |-> originConfig.name, name |-> data.name.s],
   text |-> MessageText(data, originConfig),
   html |-> MessageHtml(data, originConfig)]


(***************************************************************************)
(* State.                                                                  *)
(***************************************************************************)
VARIABLES
  now,           \* Date.now()
  rateLimitMap,  \* the module-level Map of index.ts
  slot,          \* the requests in flight, each suspended at an await
  resp,          \* the response returned by the step just taken, if any
  win,           \* history: per client key, the checks of its current window
  boot           \* start-up: the phase of the process and what loadConfig did

vars == <<now, rateLimitMap, slot, resp, win, boot>>

Slots == 1..MaxInFlight

NoRequest ==
  [method |-> "", path |-> "", origin |-> NoHeader, xff |-> NoAddr,
   peer |-> NoAddr, body |-> NotJson]

Idle ==
  [pc |-> "idle", req |-> NoRequest, cors |-> NoHeaders, ip |-> <<>>,
   originConfig |-> NoConfig, data |-> NoProps, mails |-> <<>>, winStart |-> 0]

NoResponse == [status |-> 0, headers |-> NoHeaders, body |-> NoBody]

\* A response as it leaves the handler, with the request it answers, the mails
\* that request handed to the transport, what the limiter and the transport
\* answered for it ("skipped" when the request never got there), and the entry
\* the handler logged before returning.
Answer(req, response, mails, limiter, smtp, logged) ==
  [req |-> req, response |-> response, mails |-> mails,
   limiter |-> limiter, smtp |-> smtp, log |-> logged]

NoResp == Answer(NoRequest, NoResponse, <<>>, "skipped", "skipped", NoLog)

EmptyMap == [k \in {} |-> [count |-> 0, resetAt |-> 0]]
EmptyWin ==
  [k \in {} |-> [start |-> 0, at |-> 0, calls |-> 0, limited |-> FALSE,
                 passed |-> 0, mailed |-> 0, allowedAt |-> <<>>]]

\* the module of index.ts runs once loadConfig has returned
Booting(env, file) ==
  [phase |-> "loading", env |-> env, file |-> file, result |-> Thrown("")]
Booted(env, file) ==
  LET result == loadConfig(env, file) IN
  [phase |-> IF result.ok THEN "serving" ELSE "exited",
   env |-> env, file |-> file, result |-> result]

Init ==
  /\ now = 0
  /\ rateLimitMap = EmptyMap
  /\ slot = [r \in Slots |-> Idle]
  /\ resp = NoResp
  /\ win = EmptyWin
  /\ boot = Booted(ServerEnv, ConfigFile)

(***************************************************************************)
(* History of the limiter, kept beside the map: per key, the time of the   *)
(* check that opened its current window, the time of its latest check,     *)
(* the number of checks made in that window, the result of the latest      *)
(* one, how many were let through and how many of those went on to call    *)
(* the Mailer; and, across windows, the times of the checks let through   *)
(* during the last BurstSpan milliseconds.  A window is opened   *)
(* by the first check of a key and by a check made more than               *)
(* RATE_WINDOW_MS after the current window was opened.                     *)
(***************************************************************************)
BurstSpan == RATE_WINDOW_MS + 1

AllowedAfter(w, ip, time, limited) ==
  LET recent(t) == t >= time - BurstSpan
      kept == IF ip \in DOMAIN w THEN SelectSeq(w[ip].allowedAt, recent) ELSE <<>>
  IN  IF limited THEN kept ELSE Append(kept, time)

WinAfter(w, ip, time, limited) ==
  IF ip \notin DOMAIN w \/ time > w[ip].start + RATE_WINDOW_MS
  THEN (ip :> [start |-> time, at |-> time, calls |-> 1, limited |-> limited,
               passed |-> IF limited THEN 0 ELSE 1, mailed |-> 0,
               allowedAt |-> AllowedAfter(w, ip, time, limited)]) @@ w
  ELSE [w EXCEPT ![ip] =
          [@ EXCEPT !.at = time, !.calls = @ + 1, !.limited = limited,
                    !.passed = IF limited THEN @ ELSE @ + 1,
                    !.allowedAt = AllowedAfter(w, ip, time, limited)]]

WinMailed(w, ip, start) ==
  IF ip \in DOMAIN w /\ w[ip].start = start
  THEN [w EXCEPT ![ip].mailed = @ + 1]
  ELSE w

(***************************************************************************)
(* fetch up to its first await: the early returns in the order of the      *)
(* code.  The result tells whether the handler returned (done) and with    *)
(* what, the map it left, and whether it called the limiter.               *)
(***************************************************************************)
Returned(response, logged, map, cors, ip, originConfig) ==
  [done |-> TRUE, response |-> response, log |-> logged, map |-> map,
   checked |-> FALSE, limited |-> FALSE, cors |-> cors, ip |-> ip,
   originConfig |-> originConfig]

\* (variant: the limiter is consulted before the origin is resolved)
fetchSyncLimiterFirst(req, map, time) ==
  LET origin == req.origin
      cors == corsHeaders(origin)
      ip == ClientKey(req.xff, req.peer)
      originConfig == getOriginConfig(origin)
      rl == isRateLimited(map, ip, time)
  IN
  IF req.method = "OPTIONS" THEN
    Returned(EmptyResponse(204, cors), NoLog, map, cors, ip, originConfig)
  ELSE IF req.path # "/api/send" \/ req.method # "POST" THEN
    Returned(json(ErrorBody("Not found"), 404, cors),
             log("warn", "Not found", ip, ""), map, cors, ip, originConfig)
  ELSE IF rl.limited THEN
    [done |-> TRUE, response |-> json(ErrorBody("Too many requests"), 429, cors),
     log |-> log("warn", "Rate limited", ip, ""),
     map |-> rl.map, checked |-> TRUE, limited |-> TRUE,
     cors |-> cors, ip |-> ip, originConfig |-> originConfig]
  ELSE IF originConfig = NoConfig THEN
    [done |-> TRUE, response |-> json(ErrorBody("Forbidden"), 403, cors),
     log |-> log("warn", "Forbidden origin", ip, ""),
     map |-> rl.map, checked |-> TRUE, limited |-> FALSE,
     cors |-> cors, ip |-> ip, originConfig |-> originConfig]
  ELSE
    [done |-> FALSE, response |-> NoResponse, log |-> NoLog,
     map |-> rl.map, checked |-> TRUE, limited |-> FALSE,
     cors |-> cors, ip |-> ip, originConfig |-> originConfig]

fetchSync(req, map, time) ==
  LET origin == req.origin
      cors == corsHeaders(origin)
      ip == ClientKey(req.xff, req.peer)
      originConfig == getOriginConfig(origin)
      rl == isRateLimited(map, ip, time)
  IN
  IF req.method = "OPTIONS" THEN
    Returned(EmptyResponse(204, cors), NoLog, map, cors, ip, originConfig)
  ELSE IF req.path # "/api/send" \/ req.method # "POST" THEN
    Returned(json(ErrorBody("Not found"), 404, cors),
             log("warn", "Not found", ip, ""), map, cors, ip, originConfig)
  ELSE IF originConfig = NoConfig THEN
    Returned(json(ErrorBody("Forbidden"), 403, cors),
             log("warn", "Forbidden origin", ip, ""), map, cors, ip, originConfig)
  ELSE
    [done |-> rl.limited,
     response |-> IF rl.limited THEN json(ErrorBody("Too many requests"), 429, cors)
                  ELSE NoResponse,
     log |-> IF rl.limited THEN log("warn", "Rate limited", ip, "") ELSE NoLog,
     map |-> rl.map, checked |-> TRUE, limited |-> rl.limited,
     cors |-> cors, ip |-> ip, originConfig |-> originConfig]

\* a request suspended at `await req.json()`
Suspended(req, cors, ip, originConfig, start) ==
  [pc |-> "json", req |-> req, cors |-> cors, ip |-> ip,
   originConfig |-> originConfig, data |-> NoProps, mails |-> <<>>,
   winStart |-> start]

(***************************************************************************)
(* fetch, first step: from the start of the handler to `await req.json()`  *)
(* or to the response of an early return.                                  *)
(***************************************************************************)
Fetch(r, req) ==
  /\ boot.phase = "serving"
  /\ slot[r].pc = "idle"
  /\ \E out \in {fetchSync(req, rateLimitMap, now)} :
     /\ out.checked => out.map[out.ip].count <= MaxCount
     /\ rateLimitMap' = out.map
     /\ win' = IF out.checked THEN WinAfter(win, out.ip, now, out.limited) ELSE win
     /\ IF out.done THEN
          /\ resp' = Answer(req, out.response, <<>>,
                            IF ~out.checked THEN "skipped"
                            ELSE IF out.limited THEN "reject" ELSE "pass",
                            "skipped", out.log)
          /\ UNCHANGED slot
        ELSE
          /\ resp' = NoResp
          /\ slot' = [slot EXCEPT ![r] =
               Suspended(req, out.cors, out.ip, out.originConfig, win'[out.ip].start)]
  /\ UNCHANGED <<now, boot>>

(***************************************************************************)
(* fetch, second step: req.json() settles; the body is validated and       *)
(* sendContactEmail creates its transport and calls sendMail.              *)
(***************************************************************************)
BodyRead(r) ==
  /\ slot[r].pc = "json"
  /\ \E s \in {slot[r]} : \E body \in {s.req.body} :
     IF ~body.json THEN
       /\ resp' = Answer(s.req, json(ErrorBody("Invalid JSON"), 400, s.cors),
                         s.mails, "pass", "skipped",
                         log("warn", "Invalid JSON", s.ip, ""))
       /\ slot' = [slot EXCEPT ![r] = Idle]
       /\ UNCHANGED win
     ELSE IF ~validateBody(body.value) THEN
       /\ resp' = Answer(s.req,
                         json(ErrorBody("Invalid body. Required: email, name, message"),
                              400, s.cors),
                         s.mails, "pass", "skipped",
                         log("warn", "Invalid body", s.ip, ""))
       /\ slot' = [slot EXCEPT ![r] = Idle]
       /\ UNCHANGED win
     ELSE
       /\ resp' = NoResp
       /\ slot' = [slot EXCEPT ![r] =
            [s EXCEPT !.pc = "sendMail", !.data = body.value.props,
                      !.mails = Append(@, sendContactEmail(body.value.props,
                                                           s.originConfig))]]
       /\ win' = WinMailed(win, s.ip, s.winStart)
  /\ UNCHANGED <<now, rateLimitMap, boot>>

(***************************************************************************)
(* fetch, third step: sendMail resolves, or rejects with an Error whose    *)
(* message names the cause.                                                *)
(***************************************************************************)
\* err.message of the rejections of sendMail; NoError when it resolves
NoError == ""
ErrAuth == "Invalid login: 535 Authentication failed"
ErrConnection == "connect ECONNREFUSED"
ErrDns == "getaddrinfo ENOTFOUND"
SmtpOutcomes == {NoError, ErrAuth, ErrConnection, ErrDns}

\* (variant: a failed sendMail is tried once more)
SmtpDoneRetry(r, err) ==
  /\ slot[r].pc = "sendMail"
  /\ LET s == slot[r] IN
     IF err # NoError /\ Len(s.mails) < 2 THEN
       /\ resp' = NoResp
       /\ slot' = [slot EXCEPT ![r].mails =
                     Append(@, sendContactEmail(s.data, s.originConfig))]
     ELSE
       /\ resp' = IF err = NoError
                  THEN Answer(s.req, json(SuccessBody, 200, s.cors), s.mails,
                              "pass", "ok", log("info", "Email sent", s.ip, ""))
                  ELSE Answer(s.req, json(ErrorBody("Failed to send email"), 500, s.cors),
                              s.mails, "pass", "failed",
                              log("error", "Failed to send email", s.ip, err))
       /\ slot' = [slot EXCEPT ![r] = Idle]
  /\ UNCHANGED <<now, rateLimitMap, win, boot>>

\* (variant: the 500 response carries the message of the caught error)
SmtpDoneLeaky(r, err) ==
  /\ slot[r].pc = "sendMail"
  /\ LET s == slot[r] IN
     resp' = IF err = NoError
             THEN Answer(s.req, json(SuccessBody, 200, s.cors), s.mails,
                         "pass", "ok", log("info", "Email sent", s.ip, ""))
             ELSE Answer(s.req, json(ErrorBody(err), 500, s.cors),
                         s.mails, "pass", "failed",
                         log("error", "Failed to send email", s.ip, err))
  /\ slot' = [slot EXCEPT ![r] = Idle]
  /\ UNCHANGED <<now, rateLimitMap, win, boot>>

\* (variant: one transport shared by all requests, serving them in turn)
SmtpDoneSharedTransport(r, err) ==
  /\ slot[r].pc = "sendMail"
  /\ \A other \in Slots : other < r => slot[other].pc # "sendMail"
  /\ LET s == slot[r] IN
     resp' = IF err = NoError
             THEN Answer(s.req, json(SuccessBody, 200, s.cors), s.mails,
                         "pass", "ok", log("info", "Email sent", s.ip, ""))
             ELSE Answer(s.req, json(ErrorBody("Failed to send email"), 500, s.cors),
                         s.mails, "pass", "failed",
                         log("error", "Failed to send email", s.ip, err))
  /\ slot' = [slot EXCEPT ![r] = Idle]
  /\ UNCHANGED <<now, rateLimitMap, win, boot>>

SmtpDone(r, err) ==
  /\ slot[r].pc = "sendMail"
  /\ LET s == slot[r] IN
     resp' = IF err = NoError
             THEN Answer(s.req, json(SuccessBody, 200, s.cors), s.mails,
                         "pass", "ok", log("info", "Email sent", s.ip, ""))
             ELSE Answer(s.req, json(ErrorBody("Failed to send email"), 500, s.cors),
                         s.mails, "pass", "failed",
                         log("error", "Failed to send email", s.ip, err))
  /\ slot' = [slot EXCEPT ![r] = Idle]
  /\ UNCHANGED <<now, rateLimitMap, win, boot>>

(***************************************************************************)
(* One call of isRateLimited on its own.                                   *)
(***************************************************************************)
Check(ip) ==
  /\ LET rl == isRateLimited(rateLimitMap, ip, now) IN
     /\ rl.map[ip].count <= MaxCount
     /\ rateLimitMap' = rl.map
     /\ win' = WinAfter(win, ip, now, rl.limited)
  /\ resp' = NoResp
  /\ UNCHANGED <<now, slot, boot>>

(***************************************************************************)
(* The clock.                                                              *)
(***************************************************************************)
HalfWindow == RATE_WINDOW_MS \div 2
\* a step that carries the clock past the end of every open window
Expiry == RATE_WINDOW_MS + HalfWindow
MaxTime == MaxHalfWindows * HalfWindow + MaxFine

Tick(d) ==
  /\ now + d <= MaxTime
  /\ d = 1 => now % HalfWindow < MaxFine
  /\ now' = now + d
  /\ resp' = NoResp
  /\ UNCHANGED <<rateLimitMap, slot, win, boot>>

(***************************************************************************)
(* Requests offered to the server.                                         *)
(***************************************************************************)
Ip1 == <<"1">>
Ip2 == <<"2">>

Str_a_at_b == <<"a", "@", "b">>
Str_ab == <<"a", "b">>
Str_X == <<"X">>
Str_hi == <<"h", "i">>

ValidBody   == Json(JsonObject(JsStr(Str_a_at_b), JsStr(Str_X), JsStr(Str_hi), JsUndefined))
InvalidBody == Json(JsonObject(JsStr(Str_ab), JsStr(Str_X), JsStr(Str_hi), JsUndefined))

Methods == {"OPTIONS", "POST", "GET"}
Paths == {"/api/send", "/other"}
OriginHeaders == {NoHeader, Header(""), Header(OriginA), Header(OriginB), Header(OriginX)}
Bodies == {NotJson, InvalidBody, ValidBody}

\* every shape of request, from one client; only a submission carries a body
Requests ==
  [method : Methods, path : Paths, origin : OriginHeaders, xff : {Addr(Ip1)},
   peer : {NoAddr}, body : {NotJson}]
  \cup
  [method : {"POST"}, path : {"/api/send"}, origin : OriginHeaders, xff : {Addr(Ip1)},
   peer : {NoAddr}, body : Bodies]

\* submissions of the form from one client, through either site
Submissions ==
  [method : {"POST"}, path : {"/api/send"}, origin : {Header(OriginA), Header(OriginB)},
   xff : {Addr(Ip1)}, peer : {NoAddr}, body : {NotJson, ValidBody}]

(***************************************************************************)
(* Spec: the server with several submissions in flight.                    *)
(***************************************************************************)
Next ==
  \/ \E r \in Slots, req \in Submissions : Fetch(r, req)
  \/ \E r \in Slots : BodyRead(r)
  \/ \E r \in Slots, err \in {NoError, ErrAuth} : SmtpDone(r, err)
  \/ \E d \in {Expiry} : Tick(d)

Spec == Init /\ [][Next]_vars

(***************************************************************************)
(* SpecInFlight: at most MaxVisits submissions from one client, taken up   *)
(* while earlier ones are still suspended; the clock stands still.         *)
(***************************************************************************)
NextInFlight ==
  \/ \E r \in Slots, req \in Submissions :
       /\ Fetch(r, req)
       /\ \A k \in DOMAIN rateLimitMap' : rateLimitMap'[k].count <= MaxVisits
  \/ \E r \in Slots : BodyRead(r)
  \/ \E r \in Slots, err \in {NoError, ErrAuth} : SmtpDone(r, err)

SpecInFlight == Init /\ [][NextInFlight]_vars

(***************************************************************************)
(* SpecDispatch: requests of every shape, handled one at a time.           *)
(***************************************************************************)
NextDispatch ==
  \/ \E req \in Requests : Fetch(1, req)
  \/ BodyRead(1)
  \/ \E err \in SmtpOutcomes : SmtpDone(1, err)
  \/ \E d \in {Expiry} : Tick(d)

SpecDispatch == Init /\ [][NextDispatch]_vars

(***************************************************************************)
(* SpecLimiter: isRateLimited called for one key as the clock advances by  *)
(* half windows and by milliseconds.                                       *)
(***************************************************************************)
NextLimiter ==
  \/ \E ip \in {Ip1} : Check(ip)
  \/ \E d \in {1, HalfWindow} : Tick(d)

SpecLimiter == Init /\ [][NextLimiter]_vars

(***************************************************************************)
(* SpecBuckets: isRateLimited called for two keys as the clock advances    *)
(* by whole windows, so that the windows of the two keys open at           *)
(* different times and one can be expired or exhausted while the other is  *)
(* not.                                                                    *)
(***************************************************************************)
BucketKeys == {Ip1, Ip2}

NextBuckets ==
  \/ \E ip \in BucketKeys : Check(ip)
  \/ \E d \in {RATE_WINDOW_MS} : Tick(d)

SpecBuckets == Init /\ [][NextBuckets]_vars


(***************************************************************************)
(* SpecValidator: one submission has passed the limiter at time 0 and is   *)
(* suspended at `await req.json()`; its body is any of ValidatorBodies.    *)
(***************************************************************************)
Str_5 == <<"5">>

TextValues ==
  {JsUndefined, JsNull, JsNum(1), JsStr(<<>>), JsStr(Str_X), JsStr(Str_a_at_b),
   JsObject}
PhoneValues ==
  {JsUndefined, JsNull, JsBool(FALSE), JsBool(TRUE), JsNum(0), JsNum(1),
   JsStr(<<>>), JsStr(Str_5), JsObject, JsArray}

ValidatorBodies ==
  {NotJson, Json(JsonScalar(JsNull)), Json(JsonScalar(JsBool(TRUE))),
   Json(JsonScalar(JsNum(1))), Json(JsonScalar(JsStr(Str_a_at_b))), Json(JsonArray)}
  \cup {Json(JsonObject(e, nm, m, p)) :
          e \in TextValues, nm \in TextValues, m \in TextValues, p \in PhoneValues}

InitValidator ==
  /\ now = 0
  /\ resp = NoResp
  /\ boot = Booted(ServerEnv, ConfigFile)
  /\ \E body \in ValidatorBodies :
       LET req == [method |-> "POST", path |-> "/api/send", origin |-> Header(OriginA),
                   xff |-> Addr(Ip1), peer |-> NoAddr, body |-> body]
           out == fetchSync(req, EmptyMap, 0)
       IN
       /\ rateLimitMap = out.map
       /\ win = WinAfter(EmptyWin, out.ip, 0, out.limited)
       /\ slot = [r \in Slots |->
                    IF r = 1
                    THEN Suspended(req, out.cors, out.ip, out.originConfig, 0)
                    ELSE Idle]

NextValidator ==
  \/ BodyRead(1)
  \/ \E err \in SmtpOutcomes : SmtpDone(1, err)

SpecValidator == InitValidator /\ [][NextValidator]_vars


(***************************************************************************)
(* SpecClients: requests from several clients, handled one at a time; the  *)
(* X-Forwarded-For header is absent, empty, one address, or a padded list  *)
(* of two, and the peer address is available or not.                       *)
(***************************************************************************)
Str_padded_list == <<" ", "1", " ", ",", "2">>

XffHeaders == {NoAddr, Addr(<<>>), Addr(Ip1), Addr(Str_padded_list)}
Peers == {NoAddr, Addr(Ip2)}

\* submissions through site A from every client, and requests that are turned
\* away before the limiter
ClientRequests ==
  [method : {"POST"}, path : {"/api/send"}, origin : {Header(OriginA)},
   xff : XffHeaders, peer : Peers, body : {NotJson}]
  \cup
  [method : {"POST"}, path : {"/api/send"}, origin : {Header(OriginX)},
   xff : {NoAddr, Addr(Ip1)}, peer : {Addr(Ip2)}, body : {NotJson}]
  \cup
  [method : {"POST"}, path : {"/other"}, origin : {Header(OriginA)},
   xff : {NoAddr, Addr(<<>>)}, peer : {NoAddr}, body : {NotJson}]

NextClients ==
  \/ \E req \in ClientRequests :
       /\ Fetch(1, req)
       /\ \A k \in DOMAIN rateLimitMap' : rateLimitMap'[k].count <= MaxVisits
  \/ BodyRead(1)
  \/ \E d \in {Expiry} : Tick(d)

SpecClients == Init /\ [][NextClients]_vars

(***************************************************************************)
(* SpecConfig: the start of the process.  The config file is unreadable,   *)
(* malformed, not an object, empty, or an object of at most MaxOrigins     *)
(* entries of which one is arbitrary and the others are complete.          *)
(***************************************************************************)
LoadConfig ==
  /\ boot.phase = "loading"
  /\ boot' = Booted(boot.env, boot.file)
  /\ UNCHANGED <<now, rateLimitMap, slot, resp, win>>

NameValues == {CfgUndefined, CfgStr(""), CfgStr("Site")}
ToEmailValues == {CfgUndefined, CfgStr(""), CfgNum(1), CfgStr("owner@x.example")}
SmtpValues ==
  {SmtpValue(CfgUndefined), SmtpValue(CfgNull), SmtpValue(CfgStr("smtp"))}
  \cup
  {SmtpObject(host, port, secure, user, pass) :
     host \in {CfgUndefined, CfgStr(""), CfgStr("smtp.x.example")},
     port \in {CfgUndefined, CfgNum(465)},
     secure \in {CfgUndefined, CfgBool(TRUE)},
     user \in {CfgUndefined, CfgStr("relay@x.example")},
     pass \in {CfgUndefined, CfgStr("secret-x")}}

Entries ==
  {EntryValue(CfgNull), EntryValue(CfgStr("x"))}
  \cup
  {EntryObject(name, toEmail, smtp) :
     name \in NameValues, toEmail \in ToEmailValues, smtp \in SmtpValues}

OriginAt(i) == IF i = 1 THEN OriginA ELSE IF i = 2 THEN OriginB ELSE OriginX

ConfigFiles ==
  {FileUnreadable, FileNotJson, FileValue("array"), FileValue("null"),
   FileValue("number"), FileObject(<<>>)}
  \cup
  {FileObject([i \in 1..n |-> <<OriginAt(i), IF i = at THEN e ELSE EntryB>>]) :
     n \in 1..MaxOrigins, at \in 1..MaxOrigins, e \in Entries}

Envs == {Env(TRUE, 0), Env(TRUE, 8080), Env(FALSE, 0)}

InitConfig ==
  /\ now = 0
  /\ rateLimitMap = EmptyMap
  /\ slot = [r \in Slots |-> Idle]
  /\ resp = NoResp
  /\ win = EmptyWin
  /\ \E env \in Envs, file \in ConfigFiles : boot = Booting(env, file)

NextConfig == LoadConfig

SpecConfig == InitConfig /\ [][NextConfig]_vars

(***************************************************************************)
(* SpecEscape: one submission has passed the limiter at time 0 and is      *)
(* suspended at `await req.json()`; the name of its valid body is any      *)
(* non-empty string of at most MaxStrLen characters over the four escaped  *)
(* characters, a letter and a semicolon, or "<script>".                    *)
(***************************************************************************)
EscapeAlphabet == {"&", "<", ">", "\"", "a", ";"}
Str_script == <<"<", "s", "c", "r", "i", "p", "t", ">">>
Str_lines == <<"h", "\n", "<">>

EscapeStrings ==
  UNION {[1..n -> EscapeAlphabet] : n \in 1..MaxStrLen} \cup {Str_script}

EscapeBodies ==
  {Json(JsonObject(JsStr(Str_a_at_b), JsStr(nm), JsStr(m), JsUndefined)) :
     nm \in EscapeStrings, m \in {Str_hi, Str_lines}}

InitEscape ==
  /\ now = 0
  /\ resp = NoResp
  /\ boot = Booted(ServerEnv, ConfigFile)
  /\ \E body \in EscapeBodies :
       LET req == [method |-> "POST", path |-> "/api/send", origin |-> Header(OriginA),
                   xff |-> Addr(Ip1), peer |-> NoAddr, body |-> body]
           out == fetchSync(req, EmptyMap, 0)
       IN
       /\ rateLimitMap = out.map
       /\ win = WinAfter(EmptyWin, out.ip, 0, out.limited)
       /\ slot = [r \in Slots |->
                    IF r = 1
                    THEN Suspended(req, out.cors, out.ip, out.originConfig, 0)
                    ELSE Idle]

NextEscape ==
  \/ BodyRead(1)
  \/ \E err \in {NoError, ErrAuth} : SmtpDone(1, err)

SpecEscape == InitEscape /\ [][NextEscape]_vars

(***************************************************************************)
(* Vocabulary of the properties.                                           *)
(***************************************************************************)
\* the Origin header names a key of the ConfigStore
Known(origin) == origin.present /\ origin.v \in DOMAIN config.origins

KeyOf(req) == ClientKey(req.xff, req.peer)

\* the next check of key k, made now, would be refused
OverLimit(k) ==
  /\ k \in DOMAIN rateLimitMap
  /\ rateLimitMap[k].count >= RATE_LIMIT
  /\ now <= rateLimitMap[k].resetAt

Answered == resp # NoResp
Status == resp.response.status

\* the rule list of the Dispatcher, first match wins
FirstMatch(a) ==
  LET q == a.req IN
  IF q.method = "OPTIONS" THEN 204
  ELSE IF ~(q.method = "POST" /\ q.path = "/api/send") THEN 404
  ELSE IF ~Known(q.origin) THEN 403
  ELSE IF a.limiter = "reject" THEN 429
  ELSE IF ~q.body.json THEN 400
  ELSE IF ~validateBody(q.body.value) THEN 400
  ELSE IF a.smtp = "ok" THEN 200
  ELSE 500

(***************************************************************************)
(* C1.  The status of every response is the one of the first matching      *)
(* rule in the order OPTIONS 204, not POST /api/send 404, unknown origin   *)
(* 403, limiter rejects 429, body not JSON 400, body invalid 400, mail     *)
(* sent 200, mail failed 500.  In particular a POST to a wrong path with   *)
(* an unknown origin gets 404, an unknown origin from a client that is     *)
(* over the limit gets 403, and a rejected request with a malformed body   *)
(* gets 429.                                                               *)
(***************************************************************************)
C1_FirstMatchDecides ==
  Answered =>
    /\ Status = FirstMatch(resp)
    /\ (resp.req.method = "POST" /\ resp.req.path # "/api/send"
        /\ ~Known(resp.req.origin)) => Status = 404
    /\ (resp.req.method = "POST" /\ resp.req.path = "/api/send"
        /\ ~Known(resp.req.origin) /\ OverLimit(KeyOf(resp.req))) => Status = 403
    /\ (resp.limiter = "reject" /\ ~resp.req.body.json) => Status = 429
    /\ (resp.limiter = "reject") <=> (Status = 429)
    /\ (resp.limiter = "skipped") <=> (Status \in {204, 404, 403})

\* an unknown origin is answered 403 while its client is over the limit
C1_Witness ==
  /\ Answered /\ Status = 403
  /\ resp.req.origin = Header(OriginX)
  /\ OverLimit(KeyOf(resp.req))

(***************************************************************************)
(* C4.  Every response carries the three CORS headers, with the values     *)
(* computed from the Origin header of the request it answers, and          *)
(* Access-Control-Allow-Methods is "POST, OPTIONS".                        *)
(***************************************************************************)
CorsNames ==
  {"Access-Control-Allow-Origin", "Access-Control-Allow-Methods",
   "Access-Control-Allow-Headers"}

C4_CorsOnEveryResponse ==
  Answered =>
    /\ Status \in {204, 404, 403, 429, 400, 200, 500}
    /\ \A h \in CorsNames :
         /\ h \in DOMAIN resp.response.headers
         /\ resp.response.headers[h] = corsHeaders(resp.req.origin)[h]
    /\ resp.response.headers["Access-Control-Allow-Methods"] = "POST, OPTIONS"

\* an error response to a request without Origin header
C4_Witness ==
  /\ Answered /\ Status = 404
  /\ resp.req.origin = NoHeader
  /\ CorsNames \subseteq DOMAIN resp.response.headers

(***************************************************************************)
(* C5.  Access-Control-Allow-Origin is the request's Origin when that      *)
(* origin is a key of the ConfigStore, and the empty string when the       *)
(* header is absent or names no configured origin; it is never "*" nor     *)
(* another configured origin.                                              *)
(***************************************************************************)
AllowOrigin == resp.response.headers["Access-Control-Allow-Origin"]

C5_AllowOriginExact ==
  Answered =>
    /\ "Access-Control-Allow-Origin" \in DOMAIN resp.response.headers
    /\ Known(resp.req.origin) => AllowOrigin = resp.req.origin.v
    /\ ~Known(resp.req.origin) => AllowOrigin = ""
    /\ AllowOrigin # "*"
    /\ \A o \in DOMAIN config.origins :
         AllowOrigin = o => (resp.req.origin.present /\ resp.req.origin.v = o)

\* an error response to a request from an origin that is not configured
C5_Witness ==
  /\ Answered /\ Status = 403
  /\ resp.req.origin = Header(OriginX)
  /\ AllowOrigin = ""

(***************************************************************************)
(* C7.  A request calls the Mailer at most once, and exactly once iff it   *)
(* is answered 200 or 500; a request answered 204, 404, 403, 429 or 400    *)
(* never calls it; a failed dispatch is not retried and ends the request   *)
(* with 500.                                                               *)
(***************************************************************************)
C7_MailerAtMostOnce ==
  /\ \A r \in Slots :
       /\ Len(slot[r].mails) <= 1
       /\ slot[r].pc = "json" => slot[r].mails = <<>>
       /\ slot[r].pc = "sendMail" => Len(slot[r].mails) = 1
  /\ Answered =>
       /\ Len(resp.mails) <= 1
       /\ (Len(resp.mails) = 1) <=> (Status \in {200, 500})
       /\ Status \in {204, 404, 403, 429, 400} => resp.mails = <<>>
       /\ resp.smtp = "failed" =>
            (Status = 500 /\ Len(resp.mails) = 1 /\ slot[1].pc = "idle")
       /\ resp.smtp = "ok" => Status = 200

\* a dispatch failed and the request ended with 500
C7_Witness ==
  /\ Answered /\ Status = 500
  /\ resp.smtp = "failed"
  /\ Len(resp.mails) = 1

(***************************************************************************)
(* C10.  A request answered 204, 404 or 403 leaves the rate-limit map      *)
(* unchanged.  A request that reaches the limiter adds one to the count    *)
(* of its client key, or starts a fresh window with count 1, and touches   *)
(* nothing else; the later steps of a request (400 for malformed or        *)
(* invalid bodies, 200, 500) leave the map unchanged.                      *)
(***************************************************************************)
OneUnit(k) ==
  /\ DOMAIN rateLimitMap' = DOMAIN rateLimitMap \cup {k}
  /\ \A j \in DOMAIN rateLimitMap \ {k} : rateLimitMap'[j] = rateLimitMap[j]
  /\ \/ /\ k \in DOMAIN rateLimitMap
        /\ rateLimitMap'[k].count = rateLimitMap[k].count + 1
        /\ rateLimitMap'[k].resetAt = rateLimitMap[k].resetAt
     \/ /\ rateLimitMap'[k].count = 1
        /\ rateLimitMap'[k].resetAt = now + RATE_WINDOW_MS

C10_Step ==
  /\ (resp' # NoResp /\ resp'.response.status \in {204, 404, 403})
       => rateLimitMap' = rateLimitMap
  /\ (resp' # NoResp /\ resp'.response.status = 429)
       => OneUnit(KeyOf(resp'.req))
  /\ \A r \in Slots :
       /\ (slot[r].pc = "idle" /\ slot'[r].pc = "json")
            => OneUnit(KeyOf(slot'[r].req))
       /\ (slot[r].pc \in {"json", "sendMail"} /\ slot'[r] # slot[r])
            => rateLimitMap' = rateLimitMap

C10_OnlyCountedAttempt == [][C10_Step]_vars

\* a malformed body was answered 400 and the client's count stands at 2
C10_Witness ==
  /\ Answered /\ Status = 400 /\ ~resp.req.body.json
  /\ rateLimitMap[KeyOf(resp.req)].count = 2


(***************************************************************************)
(* C2.  For a fixed key, the 1st to 5th checks of a window are allowed     *)
(* and the 6th and every later check of that window is refused: a check    *)
(* is allowed iff the count it leaves is at most RATE_LIMIT.  A window     *)
(* runs from the check that opened it; win[k].calls numbers the checks     *)
(* made in it, each at a time no later than RATE_WINDOW_MS after its       *)
(* start.                                                                  *)
(***************************************************************************)
C2_FiveThenRefuse ==
  \A k \in DOMAIN win :
    /\ k \in DOMAIN rateLimitMap
    /\ win[k].start <= now
    /\ win[k].calls >= 1
    /\ (win[k].calls <= RATE_LIMIT) <=> ~win[k].limited
    /\ (rateLimitMap[k].count <= RATE_LIMIT) <=> ~win[k].limited
    /\ rateLimitMap[k].resetAt = win[k].start + RATE_WINDOW_MS
    /\ win[k].passed = IF win[k].calls <= RATE_LIMIT THEN win[k].calls ELSE RATE_LIMIT

\* the 6th check of a window, made before the window's length has passed, is
\* refused after five were allowed
C2_Witness ==
  /\ Ip1 \in DOMAIN win
  /\ win[Ip1].calls = RATE_LIMIT + 1
  /\ win[Ip1].limited
  /\ win[Ip1].passed = RATE_LIMIT
  /\ now < win[Ip1].start + RATE_WINDOW_MS

(***************************************************************************)
(* C3.  With several submissions in flight, at most RATE_LIMIT requests    *)
(* of a key pass the limiter in one window and reach the Mailer; every     *)
(* further request of the key in the window is answered 429 and calls no   *)
(* Mailer; no increment is lost: the stored count is the number of checks  *)
(* made for the key in its current window.                                 *)
(***************************************************************************)
C3_NoLostUpdate ==
  /\ DOMAIN rateLimitMap = DOMAIN win
  /\ \A k \in DOMAIN rateLimitMap :
       /\ rateLimitMap[k].count = win[k].calls
       /\ rateLimitMap[k].resetAt = win[k].start + RATE_WINDOW_MS
       /\ win[k].passed <= RATE_LIMIT
       /\ win[k].mailed <= win[k].passed
       /\ win[k].calls > RATE_LIMIT => win[k].limited
  /\ \A r \in Slots :
       slot[r].pc # "idle" =>
         /\ slot[r].ip \in DOMAIN win
         /\ slot[r].winStart <= win[slot[r].ip].start
  /\ (Answered /\ Status = 429) =>
       /\ resp.mails = <<>>
       /\ win[KeyOf(resp.req)].calls > RATE_LIMIT
  /\ (Answered /\ resp.mails # <<>>) => resp.limiter = "pass"

\* a request is refused while another one of the same key is still in flight,
\* five having passed in the window
C3_Witness ==
  /\ Answered /\ Status = 429
  /\ win[Ip1].passed = RATE_LIMIT
  /\ win[Ip1].mailed >= 1
  /\ \E r \in Slots : slot[r].pc # "idle" /\ slot[r].ip = Ip1
                      /\ slot[r].winStart = win[Ip1].start

(***************************************************************************)
(* C6.  A request answered 200 made exactly one mail dispatch, and that    *)
(* dispatch used the OriginConfig stored under the request's own Origin:   *)
(* transport host, port, secure flag and credentials, recipient and the    *)
(* address of the from field; never those of another origin, also while    *)
(* a request for another origin is in flight.                              *)
(***************************************************************************)
UsesConfigOf(mail, o) ==
  LET c == config.origins[o] IN
  /\ mail.transport.host = c.smtp.host
  /\ mail.transport.port = c.smtp.port
  /\ mail.transport.secure = c.smtp.secure
  /\ mail.transport.auth.user = c.smtp.user
  /\ mail.transport.auth.pass = c.smtp.pass
  /\ mail.to = c.toEmail
  /\ mail.from.address = c.smtp.user

UsesNothingOf(mail, o) ==
  LET c == config.origins[o] IN
  /\ mail.transport.host # c.smtp.host
  /\ mail.transport.auth.user # c.smtp.user
  /\ mail.transport.auth.pass # c.smtp.pass
  /\ mail.to # c.toEmail
  /\ mail.from.address # c.smtp.user

DispatchedFor(mails, origin) ==
  /\ Len(mails) = 1
  /\ Known(origin)
  /\ UsesConfigOf(mails[1], origin.v)
  /\ \A o \in DOMAIN config.origins \ {origin.v} : UsesNothingOf(mails[1], o)

C6_OwnOriginConfig ==
  /\ (Answered /\ Status = 200) => DispatchedFor(resp.mails, resp.req.origin)
  /\ \A r \in Slots :
       slot[r].pc = "sendMail" => DispatchedFor(slot[r].mails, slot[r].req.origin)

\* a submission through site B is answered 200 while one through site A is
\* waiting for its SMTP exchange
C6_Witness ==
  /\ Answered /\ Status = 200
  /\ resp.req.origin = Header(OriginB)
  /\ \E r \in Slots : slot[r].pc = "sendMail" /\ slot[r].req.origin = Header(OriginA)

(***************************************************************************)
(* C8.  With phone absent, the Validator accepts a parsed body iff it is   *)
(* a non-null, non-array object whose email, name and message are          *)
(* strings, email contains "@", and name and message are non-empty.  It    *)
(* accepts {email:"a@b", name:"X", message:"hi"}; a rejected body is       *)
(* answered 400 and no mail is dispatched.                                 *)
(***************************************************************************)
PhoneAbsent(v) == v.props.phone = JsUndefined

WellFormed(v) ==
  /\ v.val.t = "object"
  /\ v.props.email.t = "string"
  /\ v.props.name.t = "string"
  /\ v.props.message.t = "string"
  /\ \E i \in 1..Len(v.props.email.s) : v.props.email.s[i] = "@"
  /\ v.props.name.s # <<>>
  /\ v.props.message.s # <<>>

\* the body of the request in slot r went through the Validator and was accepted
AcceptedIn(r) == slot[r].pc = "sendMail"
\* the body of the answered request went through the Validator and was rejected
Rejected ==
  /\ Answered /\ resp.req.body.json
  /\ resp.response.body = ErrorBody("Invalid body. Required: email, name, message")

C8_ValidatorPredicate ==
  /\ \A r \in Slots :
       (AcceptedIn(r) /\ PhoneAbsent(slot[r].req.body.value))
         => WellFormed(slot[r].req.body.value)
  /\ (Rejected /\ PhoneAbsent(resp.req.body.value))
       => ~WellFormed(resp.req.body.value)
  /\ Rejected => (Status = 400 /\ resp.mails = <<>>)
  /\ (Answered /\ resp.req.body.json /\ Status = 400) => Rejected
  /\ (Answered /\ resp.req.body = ValidBody) => Status \in {200, 500}

\* an array is rejected with 400
C8_Witness ==
  /\ Rejected /\ Status = 400
  /\ resp.req.body.value.val.t = "array"
  /\ resp.mails = <<>>

(***************************************************************************)
(* C9.  For a body whose email, name and message are valid, the Validator  *)
(* accepts it iff phone is absent or a non-empty string: phone:"" and      *)
(* every present phone that is not a string are rejected.                  *)
(***************************************************************************)
PhoneOk(v) ==
  \/ v.props.phone = JsUndefined
  \/ (v.props.phone.t = "string" /\ v.props.phone.s # <<>>)

C9_PhoneAbsentOrNonEmptyString ==
  /\ \A r \in Slots : AcceptedIn(r) => PhoneOk(slot[r].req.body.value)
  /\ (Rejected /\ WellFormed(resp.req.body.value))
       => ~PhoneOk(resp.req.body.value)

(***************************************************************************)
(* C11.  The status and the body of a response are fixed by the outcome    *)
(* class of its request alone (preflight, not found, forbidden, limited,   *)
(* malformed, invalid, sent, failed): whatever the visitor's data and      *)
(* whatever the cause, two requests of one class get the same status and   *)
(* body.  Every Mailer failure is answered 500 with the body               *)
(* {"error":"Failed to send email"}; the error text is in the logged       *)
(* entry and in no part of the response.                                   *)
(***************************************************************************)
OutcomeClass(a) ==
  LET q == a.req IN
  IF q.method = "OPTIONS" THEN "preflight"
  ELSE IF ~(q.method = "POST" /\ q.path = "/api/send") THEN "not found"
  ELSE IF ~Known(q.origin) THEN "forbidden"
  ELSE IF a.limiter = "reject" THEN "limited"
  ELSE IF ~q.body.json THEN "malformed"
  ELSE IF ~validateBody(q.body.value) THEN "invalid"
  ELSE IF a.smtp = "ok" THEN "sent"
  ELSE "failed"

GenericResponse(class) ==
  CASE class = "preflight" -> [status |-> 204, body |-> NoBody]
    [] class = "not found" -> [status |-> 404, body |-> <<"error", "Not found">>]
    [] class = "forbidden" -> [status |-> 403, body |-> <<"error", "Forbidden">>]
    [] class = "limited"   -> [status |-> 429, body |-> <<"error", "Too many requests">>]
    [] class = "malformed" -> [status |-> 400, body |-> <<"error", "Invalid JSON">>]
    [] class = "invalid"   ->
         [status |-> 400, body |-> <<"error", "Invalid body. Required: email, name, message">>]
    [] class = "sent"      -> [status |-> 200, body |-> <<"success", "true">>]
    [] class = "failed"    -> [status |-> 500, body |-> <<"error", "Failed to send email">>]

\* the text appears as the body's value or as the value of a header
InResponse(text, response) ==
  \/ \E i \in 1..Len(response.body) : response.body[i] = text
  \/ \E h \in DOMAIN response.headers : response.headers[h] = text

C11_GenericErrorBodies ==
  Answered =>
    /\ Status = GenericResponse(OutcomeClass(resp)).status
    /\ resp.response.body = GenericResponse(OutcomeClass(resp)).body
    /\ resp.smtp = "failed" =>
         /\ Status = 500
         /\ resp.response.body = <<"error", "Failed to send email">>
         /\ resp.log.level = "error"
         /\ resp.log.error \in SmtpOutcomes \ {NoError}
         /\ ~InResponse(resp.log.error, resp.response)
    /\ resp.smtp # "failed" => resp.log.error = ""

\* a DNS failure of the SMTP exchange is answered with the generic 500 body and
\* its text is logged
C11_Witness ==
  /\ Answered /\ Status = 500
  /\ resp.log.error = ErrDns
  /\ resp.response.body = <<"error", "Failed to send email">>

(***************************************************************************)
(* C12.  escapeHtml replaces every &, <, > and " by &amp;, &lt;, &gt; and  *)
(* &quot; and changes nothing else: a string free of the four characters   *)
(* comes back unchanged, and escaping it again changes nothing;            *)
(* "<script>" becomes "&lt;script&gt;"; the output holds no raw <, > or "  *)
(* and no & that does not begin one of the four entities.  Checked on the  *)
(* name that sendContactEmail escapes into the html of the mail.           *)
(***************************************************************************)
Entity(ch) ==
  CASE ch = "&"  -> <<"&", "a", "m", "p", ";">>
    [] ch = "<"  -> <<"&", "l", "t", ";">>
    [] ch = ">"  -> <<"&", "g", "t", ";">>
    [] ch = "\"" -> <<"&", "q", "u", "o", "t", ";">>
    [] OTHER     -> <<ch>>

RECURSIVE EachEscaped(_)
EachEscaped(s) ==
  IF s = <<>> THEN <<>> ELSE Entity(Head(s)) \o EachEscaped(Tail(s))

FreeOfSpecials(s) == \A i \in 1..Len(s) : s[i] \notin {"&", "<", ">", "\""}

\* an entity starts at position i of s
EntityAt(s, i) ==
  \E e \in {Entity("&"), Entity("<"), Entity(">"), Entity("\"")} :
    /\ i + Len(e) - 1 <= Len(s)
    /\ SubSeq(s, i, i + Len(e) - 1) = e

SafeHtml(s) ==
  \A i \in 1..Len(s) :
    /\ s[i] \notin {"<", ">", "\""}
    /\ s[i] = "&" => EntityAt(s, i)

C12_EscapeHtml ==
  \A r \in Slots :
    slot[r].pc = "sendMail" =>
      LET input == slot[r].data.name.s
          output == slot[r].mails[1].html.name
      IN
      /\ output = EachEscaped(input)
      /\ FreeOfSpecials(input) => (output = input /\ escapeHtml(output) = output)
      /\ input = <<"<", "s", "c", "r", "i", "p", "t", ">">> =>
           output = <<"&", "l", "t", ";", "s", "c", "r", "i", "p", "t", "&", "g", "t", ";">>
      /\ SafeHtml(output)

\* a name holding an entity already is escaped once more, ampersand first
C12_Witness ==
  /\ slot[1].pc = "sendMail"
  /\ slot[1].data.name.s = <<"&", "a", ";">>
  /\ slot[1].mails[1].html.name = <<"&", "a", "m", "p", ";", "a", ";">>

(***************************************************************************)
(* C13 (as stated).  For a key with a stored entry, a check made strictly  *)
(* before resetAt adds one to count and leaves resetAt unchanged, and a    *)
(* check made at or after resetAt re-initialises the entry to count = 1    *)
(* and resetAt = now + RATE_WINDOW_MS and is allowed; within one window    *)
(* count never decreases.                                                  *)
(***************************************************************************)
\* the step is a check of key k, which had an entry
CheckOf(k) ==
  /\ k \in DOMAIN rateLimitMap
  /\ [win'[k] EXCEPT !.mailed = 0] # [win[k] EXCEPT !.mailed = 0]
  /\ win'[k].at = now

Incremented(k) ==
  /\ rateLimitMap'[k].count = rateLimitMap[k].count + 1
  /\ rateLimitMap'[k].resetAt = rateLimitMap[k].resetAt

Reinitialised(k) ==
  /\ rateLimitMap'[k].count = 1
  /\ rateLimitMap'[k].resetAt = now + RATE_WINDOW_MS
  /\ ~win'[k].limited

CountKept(k) ==
  (k \in DOMAIN rateLimitMap /\ rateLimitMap'[k].resetAt = rateLimitMap[k].resetAt)
    => rateLimitMap'[k].count >= rateLimitMap[k].count

C13_StepAsStated ==
  \A k \in DOMAIN rateLimitMap' :
    /\ (CheckOf(k) /\ now < rateLimitMap[k].resetAt) => Incremented(k)
    /\ (CheckOf(k) /\ now >= rateLimitMap[k].resetAt) => Reinitialised(k)
    /\ CountKept(k)

C13_ResetAtOrAfterResetAt == [][C13_StepAsStated]_vars

(***************************************************************************)
(* C13 (amended).  For a key with a stored entry, a check made at or       *)
(* before resetAt adds one to count and leaves resetAt unchanged, and a    *)
(* check made strictly after resetAt re-initialises the entry to           *)
(* count = 1 and resetAt = now + RATE_WINDOW_MS and is allowed: the        *)
(* window is the closed interval ending at resetAt, the instant resetAt    *)
(* itself still inside it.  Within one window count never decreases.       *)
(***************************************************************************)
C13_StepAmended ==
  \A k \in DOMAIN rateLimitMap' :
    /\ (CheckOf(k) /\ now <= rateLimitMap[k].resetAt) => Incremented(k)
    /\ (CheckOf(k) /\ now > rateLimitMap[k].resetAt) => Reinitialised(k)
    /\ CountKept(k)

C13_ResetAfterResetAt == [][C13_StepAmended]_vars

\* a check made at the instant resetAt was counted in the window it ends
C13_Witness ==
  /\ Ip1 \in DOMAIN rateLimitMap
  /\ win[Ip1].at = rateLimitMap[Ip1].resetAt
  /\ win[Ip1].at = now
  /\ rateLimitMap[Ip1].count = 2
  /\ win[Ip1].start = now - RATE_WINDOW_MS

(***************************************************************************)
(* C14 (as stated).  For one key, no span of RATE_WINDOW_MS milliseconds   *)
(* holds more than 2 * RATE_LIMIT allowed calls, and 2 * RATE_LIMIT are    *)
(* allowed within such a span, 5 at the end of one window and 5 at the     *)
(* start of the next: a key that had five calls allowed at one instant     *)
(* has its next call, made RATE_WINDOW_MS later at the start of the next   *)
(* window, allowed as well.                                                *)
(***************************************************************************)
\* allowed calls of key k in the span of d milliseconds that ends at its
\* latest check (d at most BurstSpan)
AllowedWithin(k, d) ==
  LET h == win[k].allowedAt IN
  Cardinality({i \in 1..Len(h) : h[i] >= win[k].at - d})

\* five calls of k were allowed at one instant and its only call since was
\* made RATE_WINDOW_MS later
NextCallOneWindowLater(k) ==
  LET h == win[k].allowedAt IN
  /\ Len(h) >= RATE_LIMIT
  /\ \A i \in 1..RATE_LIMIT : h[i] = win[k].at - RATE_WINDOW_MS
  /\ win[k].calls = RATE_LIMIT + 1

C14_TenWithinOneWindow ==
  \A k \in DOMAIN win :
    /\ AllowedWithin(k, RATE_WINDOW_MS) <= 2 * RATE_LIMIT
    /\ NextCallOneWindowLater(k) =>
         (~win[k].limited /\ AllowedWithin(k, RATE_WINDOW_MS) = RATE_LIMIT + 1)

(***************************************************************************)
(* C14 (amended).  For one key, 2 * RATE_LIMIT calls are allowed within    *)
(* RATE_WINDOW_MS + 1 milliseconds, 5 at the instant that opens one        *)
(* window and 5 at the first instant after its resetAt, and no span of     *)
(* that length holds more; a span of RATE_WINDOW_MS milliseconds holds at  *)
(* most 2 * RATE_LIMIT - 1 allowed calls, the call that opens a window     *)
(* being more than RATE_WINDOW_MS before every call of the next window.    *)
(***************************************************************************)
C14_BurstAcrossBoundary ==
  \A k \in DOMAIN win :
    /\ AllowedWithin(k, RATE_WINDOW_MS + 1) <= 2 * RATE_LIMIT
    /\ AllowedWithin(k, RATE_WINDOW_MS) <= 2 * RATE_LIMIT - 1
    /\ \A i \in 1..Len(win[k].allowedAt) : win[k].allowedAt[i] <= win[k].at

\* ten calls were allowed within RATE_WINDOW_MS + 1 milliseconds, five at each
\* end of the span, after an earlier window had been used up as well
C14_Witness ==
  /\ Ip1 \in DOMAIN win
  /\ AllowedWithin(Ip1, RATE_WINDOW_MS + 1) = 2 * RATE_LIMIT
  /\ \A i \in 1..RATE_LIMIT :
       /\ win[Ip1].allowedAt[i] = win[Ip1].at - (RATE_WINDOW_MS + 1)
       /\ win[Ip1].allowedAt[RATE_LIMIT + i] = win[Ip1].at
  /\ win[Ip1].start = 2 * (RATE_WINDOW_MS + 1)

(***************************************************************************)
(* C15.  The client key of a request is the first comma-separated entry    *)
(* of X-Forwarded-For (without the blanks around it) whenever the header   *)
(* is present, also when that entry is empty; otherwise the peer address   *)
(* when there is one; otherwise "unknown".  It is the key under which the  *)
(* request is counted and logged, so all requests without header and       *)
(* without peer address share the bucket "unknown".                        *)
(***************************************************************************)
FirstEntry(v) ==
  LET commas == {i \in 1..Len(v) : v[i] = ","}
      n == IF commas = {} THEN Len(v)
           ELSE (CHOOSE i \in commas : \A j \in commas : i <= j) - 1
      inner == {i \in 1..n : v[i] # " "}
  IN  IF inner = {} THEN <<>>
      ELSE SubSeq(v, CHOOSE i \in inner : \A j \in inner : i <= j,
                     CHOOSE i \in inner : \A j \in inner : i >= j)

ExpectedKey(req) ==
  IF req.xff.present THEN FirstEntry(req.xff.v)
  ELSE IF req.peer.present THEN req.peer.v
  ELSE <<"u", "n", "k", "n", "o", "w", "n">>

C15_ClientKey ==
  /\ \A r \in Slots :
       slot[r].pc # "idle" =>
         /\ slot[r].ip = ExpectedKey(slot[r].req)
         /\ slot[r].ip \in DOMAIN rateLimitMap
  /\ (Answered /\ resp.log # NoLog) => resp.log.ip = ExpectedKey(resp.req)
  /\ (Answered /\ resp.limiter # "skipped") =>
       /\ ExpectedKey(resp.req) \in DOMAIN rateLimitMap
       /\ (~resp.req.xff.present /\ ~resp.req.peer.present)
            => <<"u", "n", "k", "n", "o", "w", "n">> \in DOMAIN rateLimitMap
  /\ \A k \in DOMAIN rateLimitMap : \E req \in ClientRequests : k = ExpectedKey(req)

\* a request with an empty X-Forwarded-For header and a peer address was
\* counted under the empty key, not under its peer address
C15_Witness ==
  /\ Answered /\ Status = 400
  /\ resp.req.xff = Addr(<<>>) /\ resp.req.peer = Addr(Ip2)
  /\ resp.log.ip = <<>>
  /\ DOMAIN rateLimitMap = {<<>>}

(***************************************************************************)
(* C16.  No request waits for another: whatever the other requests in      *)
(* flight are suspended at, for the same or for another origin, a new      *)
(* request can be taken up, a request whose body has arrived can be        *)
(* validated and dispatched, and a request whose SMTP exchange has ended   *)
(* can be answered, with success or with failure.  (The clause on the      *)
(* counter is the bound of the model.)                                     *)
(***************************************************************************)
CountAfter(req) ==
  fetchSync(req, rateLimitMap, now).map[KeyOf(req)].count

C16_NoBlocking ==
  \A r \in Slots :
    /\ slot[r].pc = "idle" =>
         \A req \in Submissions :
           CountAfter(req) <= MaxCount => ENABLED Fetch(r, req)
    /\ slot[r].pc = "json" => ENABLED BodyRead(r)
    /\ slot[r].pc = "sendMail" =>
         \A err \in SmtpOutcomes : ENABLED SmtpDone(r, err)

\* the second submission is answered 200 while the first, through the same
\* site, still waits for its SMTP exchange
C16_Witness ==
  /\ Answered /\ Status = 200
  /\ resp.req.origin = Header(OriginA)
  /\ slot[1].pc = "sendMail" /\ slot[1].req.origin = Header(OriginA)
  /\ slot[2].pc = "idle"

(***************************************************************************)
(* C17.  The map starts empty; an entry is created by the first request    *)
(* of a key that reaches the rate-limit step, and by nothing else, and no  *)
(* entry is ever removed, expired or not: the key set only grows, and it   *)
(* is the set of the client keys that have reached the rate-limit step.    *)
(***************************************************************************)
\* the step takes a request of key k through the rate-limit step
ReachesLimiter(k) ==
  \/ \E r \in Slots : slot[r].pc = "idle" /\ slot'[r].pc = "json" /\ slot'[r].ip = k
  \/ resp' # NoResp /\ resp'.limiter = "reject" /\ KeyOf(resp'.req) = k

C17_Step ==
  /\ DOMAIN rateLimitMap \subseteq DOMAIN rateLimitMap'
  /\ \A k \in DOMAIN rateLimitMap' \ DOMAIN rateLimitMap :
       /\ ReachesLimiter(k)
       /\ DOMAIN rateLimitMap' = DOMAIN rateLimitMap \cup {k}
  /\ \A k \in {KeyOf(req) : req \in ClientRequests} :
       ReachesLimiter(k) => k \in DOMAIN rateLimitMap'
  /\ (resp' # NoResp /\ resp'.limiter = "skipped")
       => DOMAIN rateLimitMap' = DOMAIN rateLimitMap
  /\ DOMAIN rateLimitMap' = DOMAIN win'
  /\ Cardinality(DOMAIN rateLimitMap') = Cardinality(DOMAIN win')

C17_KeysOnlyGrow == [][C17_Step]_vars

\* four clients have been counted; the entries of three of them have expired
\* and are still stored
C17_Witness ==
  /\ Cardinality(DOMAIN rateLimitMap) = 4
  /\ Cardinality({k \in DOMAIN rateLimitMap : rateLimitMap[k].resetAt < now}) = 3
  /\ Answered /\ resp.limiter = "skipped"

(***************************************************************************)
(* C18.  loadConfig throws, and the process never serves, when the config  *)
(* file is unreadable, is not JSON, is not a JSON object, holds no origin, *)
(* or has an entry that lacks one of name, toEmail, smtp.host, smtp.user,  *)
(* smtp.pass.  When it returns, every stored OriginConfig has those five   *)
(* fields set, its port is the one given or 587 and its secure flag the    *)
(* one given or false.                                                     *)
(***************************************************************************)
IsSet(v) == v.t # "undefined"

LacksRequired(e) ==
  \/ ~IsSet(e.name)
  \/ ~IsSet(e.toEmail)
  \/ ~IsSet(e.smtp.props.host)
  \/ ~IsSet(e.smtp.props.user)
  \/ ~IsSet(e.smtp.props.pass)

Defective(file) ==
  \/ ~file.readable
  \/ ~file.json
  \/ file.top # "object"
  \/ file.entries = <<>>
  \/ \E i \in 1..Len(file.entries) : LacksRequired(file.entries[i][2])

EntryOf(file, o) ==
  LET i == CHOOSE j \in 1..Len(file.entries) : file.entries[j][1] = o
  IN  file.entries[i][2]

C18_LoadConfigFailsFast ==
  boot.phase # "loading" =>
    /\ (boot.phase = "serving") <=> boot.result.ok
    /\ Defective(boot.file) => (~boot.result.ok /\ boot.phase = "exited")
    /\ boot.result.ok =>
         \A o \in DOMAIN boot.result.config.origins :
           LET c == boot.result.config.origins[o]
               e == EntryOf(boot.file, o)
           IN
           /\ IsSet(c.name) /\ IsSet(c.toEmail)
           /\ IsSet(c.smtp.host) /\ IsSet(c.smtp.user) /\ IsSet(c.smtp.pass)
           /\ c.smtp.port = IF IsSet(e.smtp.props.port) THEN e.smtp.props.port
                            ELSE [t |-> "number", s |-> "", n |-> 587, b |-> FALSE]
           /\ c.smtp.secure = IF IsSet(e.smtp.props.secure) THEN e.smtp.props.secure
                              ELSE [t |-> "boolean", s |-> "", n |-> 0, b |-> FALSE]

(***************************************************************************)
(* C19.  CORS permission and origin authorisation agree.  A POST to        *)
(* /api/send is answered 403 exactly when the Access-Control-Allow-Origin  *)
(* of its response is the empty string, and its 429, 400, 200 and 500      *)
(* responses carry the request's own, non-empty Origin there; for every    *)
(* value of the Origin header, absent and empty included, isAllowedOrigin  *)
(* holds iff getOriginConfig finds a configuration.                        *)
(***************************************************************************)
IsSubmission(req) == req.method = "POST" /\ req.path = "/api/send"

C19_CorsAgreesWithAuthorisation ==
  /\ (Answered /\ IsSubmission(resp.req)) =>
       /\ (Status = 403) <=> (AllowOrigin = "")
       /\ Status \in {429, 400, 200, 500} =>
            /\ resp.req.origin.present
            /\ resp.req.origin.v # ""
            /\ AllowOrigin = resp.req.origin.v
       /\ isAllowedOrigin(resp.req.origin) <=> (getOriginConfig(resp.req.origin) # NoConfig)
  /\ \A r \in Slots :
       slot[r].pc # "idle" =>
         /\ isAllowedOrigin(slot[r].req.origin)
         /\ slot[r].originConfig = getOriginConfig(slot[r].req.origin)
         /\ slot[r].originConfig # NoConfig
         /\ slot[r].cors["Access-Control-Allow-Origin"] = slot[r].req.origin.v

\* a submission with an empty Origin header is refused and gets an empty
\* Access-Control-Allow-Origin
C19_Witness ==
  /\ Answered /\ IsSubmission(resp.req)
  /\ resp.req.origin = Header("")
  /\ Status = 403
  /\ AllowOrigin = ""

(***************************************************************************)
(* C20.  A refused call adds one to count, which goes on growing above     *)
(* RATE_LIMIT, and leaves resetAt as it was; so whatever number of calls   *)
(* a key made during a window, its first call after that window's resetAt  *)
(* has passed is allowed.                                                  *)
(***************************************************************************)
C20_Step ==
  \A k \in DOMAIN rateLimitMap :
    CheckOf(k) =>
      /\ win'[k].limited =>
           /\ rateLimitMap'[k].resetAt = rateLimitMap[k].resetAt
           /\ rateLimitMap'[k].count = rateLimitMap[k].count + 1
           /\ rateLimitMap'[k].count > RATE_LIMIT
           /\ now <= rateLimitMap[k].resetAt
      /\ now > rateLimitMap[k].resetAt =>
           /\ ~win'[k].limited
           /\ rateLimitMap'[k].count = 1
      /\ now > win[k].start + RATE_WINDOW_MS => ~win'[k].limited

C20_RefusalKeepsResetAt == [][C20_Step]_vars

\* two calls were refused, the second at the very instant resetAt, and the
\* window still ends RATE_WINDOW_MS after it was opened
C20_Witness ==
  /\ Ip1 \in DOMAIN rateLimitMap
  /\ rateLimitMap[Ip1].count = RATE_LIMIT + 2
  /\ win[Ip1].limited
  /\ win[Ip1].at = win[Ip1].start + RATE_WINDOW_MS
  /\ win[Ip1].passed = RATE_LIMIT
  /\ AllowedWithin(Ip1, 0) = 0
  /\ rateLimitMap[Ip1].resetAt = win[Ip1].start + RATE_WINDOW_MS

(***************************************************************************)
(* C21.  The buckets of the client keys are independent: a call of         *)
(* isRateLimited for key k adds or rewrites the entry of k alone and       *)
(* leaves the count and resetAt of every other key as they were, and both  *)
(* the entry it stores and its verdict are those of a server that has      *)
(* only ever been called for k: the call is refused exactly when k's own   *)
(* calls in k's own window exceed RATE_LIMIT.  A step that is no call of   *)
(* the limiter leaves the map alone.                                       *)
(***************************************************************************)
NoBucket == [count |-> 0, resetAt |-> 0]
Bucket(map, k) == IF k \in DOMAIN map THEN map[k] ELSE NoBucket

\* the map of a server that has only ever been called for k
Alone(map, k) == [j \in DOMAIN map \cap {k} |-> map[j]]

\* the step is a call of the limiter for key k
Checked(k) ==
  /\ k \in DOMAIN win'
  /\ k \in DOMAIN win => win'[k] # win[k]

C21_Step ==
  /\ \A k \in BucketKeys :
       Checked(k) =>
         LET alone == isRateLimited(Alone(rateLimitMap, k), k, now) IN
         /\ \A j \in BucketKeys \ {k} :
              Bucket(rateLimitMap', j) = Bucket(rateLimitMap, j)
         /\ DOMAIN rateLimitMap' = DOMAIN rateLimitMap \cup {k}
         /\ rateLimitMap'[k] = alone.map[k]
         /\ win'[k].limited = alone.limited
         /\ win'[k].limited = (win'[k].calls > RATE_LIMIT)
  /\ (\A k \in BucketKeys : ~Checked(k)) => rateLimitMap' = rateLimitMap

C21_BucketsIndependent == [][C21_Step]_vars

\* key 1 has been refused and its window is still open; key 2, whose window
\* opened later and ends later, has been let through since
C21_Witness ==
  /\ Ip1 \in DOMAIN win /\ Ip2 \in DOMAIN win
  /\ win[Ip1].limited /\ now <= rateLimitMap[Ip1].resetAt
  /\ ~win[Ip2].limited /\ win[Ip2].at > win[Ip1].at
  /\ rateLimitMap[Ip2].resetAt > rateLimitMap[Ip1].resetAt

====
